---- MODULE Spec2Model ----
(***************************************************************************)
(* Model of scripts/api.py: the POST /forecast handler                     *)
(* forecast_time_series and the series loader load_timeseries.             *)
(*                                                                         *)
(* Every request is one process.  A process walks through the handler's    *)
(* statements: method check (line 90), the four loads (93-96), model       *)
(* construction and fit (100-101 / 108-114), forecast extraction           *)
(* (103-105 / 116-118) and result assembly (120-176).  The statsmodels     *)
(* calls are library code: their outcome is a choice between success and   *)
(* an exception, restricted by what the library documents (an exogenous    *)
(* array that cannot be reshaped to (steps, 1) is rejected, a horizon      *)
(* below one is rejected, negative orders are rejected).                   *)
(***************************************************************************)
EXTENDS Integers, Sequences, FiniteSets, TLC

VARIABLES store, req, pc, loc, resp, loadlog, fitlog

vars == <<store, req, pc, loc, resp, loadlog, fitlog>>

(***************************************************************************)
(* Bounds                                                                  *)
(***************************************************************************)
NumProcs == 2
MaxSteps == 2

Procs == 1..NumProcs

(***************************************************************************)
(* The Series Store: four files under data/preprocessed                    *)
(***************************************************************************)
END_DIFF == "data/preprocessed/end_diff.npy"
END_SEASONAL_DIFF == "data/preprocessed/end_seasonal_diff.npy"
EXG_DIFF == "data/preprocessed/exg_diff.npy"
EXG_SEASONAL_DIFF == "data/preprocessed/exg_seasonal_diff.npy"

Files == {END_DIFF, END_SEASONAL_DIFF, EXG_DIFF, EXG_SEASONAL_DIFF}

None == "None"
NoFile == "NoFile"

\* the array a file holds when it exists; distinct files hold distinct arrays
ArrayOf(f) ==
    CASE f = END_DIFF -> "end"
      [] f = END_SEASONAL_DIFF -> "end_seasonal_diff"
      [] f = EXG_DIFF -> "exg"
      [] f = EXG_SEASONAL_DIFF -> "exg_seasonal_diff"

Stores == {s \in [Files -> {NoFile, "end", "end_seasonal_diff", "exg", "exg_seasonal_diff"}] :
              \A f \in Files : s[f] \in {NoFile, ArrayOf(f)}}

\* np.load raises when the file is absent
LoadRaises(st, file_path) == st[file_path] = NoFile

load_timeseries(st, file_path) == st[file_path]

(***************************************************************************)
(* Strings: method is a sequence of characters, lower() maps each one      *)
(***************************************************************************)
LowerChar(c) ==
    CASE c = "A" -> "a"
      [] c = "R" -> "r"
      [] c = "I" -> "i"
      [] c = "M" -> "m"
      [] c = "S" -> "s"
      [] OTHER -> c

Lower(s) == [i \in DOMAIN s |-> LowerChar(s[i])]

ARIMA_NAME == <<"a", "r", "i", "m", "a">>
SARIMA_NAME == <<"s", "a", "r", "i", "m", "a">>

\* a substring test, "method.lower() in 'sarima'"-style, lets the empty string pass
Recognized_substring(method) == Lower(method) \in {ARIMA_NAME, SARIMA_NAME, <<>>}

\* method.lower() in ["arima", "sarima"]                                   line 90
Recognized(method) == Lower(method) \in {ARIMA_NAME, SARIMA_NAME}

\* method.lower() == "arima"                                               line 99
IsArima(method) == Lower(method) = ARIMA_NAME

(***************************************************************************)
(* Requests                                                                *)
(***************************************************************************)
Methods ==
    { ARIMA_NAME, <<"A", "R", "I", "M", "A">>, <<"A", "r", "i", "m", "a">>,
      SARIMA_NAME, <<"S", "A", "R", "I", "M", "A">>, <<"s", "a", "R", "i", "m", "a">>,
      <<"i", "n", "v", "a", "l", "i", "d">>, <<"a", "r", "m", "a">>, <<>> }

Orders == { <<4, 0, 4>>, <<1, 1, 1>>, <<0 - 1, 0, 1>> }

SeasonalOrders == { <<0, 0, 0, 12>>, <<1, 0, 1, 12>> }

ExogValues == {3, 5}

RECURSIVE SeqsUpTo(_, _)
SeqsUpTo(S, n) ==
    IF n = 0 THEN { <<>> }
    ELSE LET shorter == SeqsUpTo(S, n - 1)
         IN  shorter \cup { Append(s, x) : s \in {t \in shorter : Len(t) = n - 1}, x \in S }

Requests ==
    [ method : Methods,
      steps : (0 - 1)..MaxSteps,
      order : Orders,
      seasonal_order : SeasonalOrders,
      usd_rates : SeqsUpTo(ExogValues, MaxSteps) ]

\* the smaller request set used when several requests run concurrently
ConcRequests ==
    { r \in Requests :
        /\ r.method \in { <<"A", "r", "i", "m", "a">>, SARIMA_NAME, <<"a", "r", "m", "a">> }
        /\ r.steps \in {1, MaxSteps}
        /\ r.order = <<1, 1, 1>>
        /\ r.seasonal_order = <<1, 0, 1, 12>>
        /\ r.usd_rates \in { <<3>> } }

NoReq == [ method |-> <<>>, steps |-> 0, order |-> <<>>, seasonal_order |-> <<>>,
           usd_rates |-> <<>> ]

(***************************************************************************)
(* Handler locals                                                          *)
(***************************************************************************)
NoModel == [ kind |-> None, endog |-> None, exog |-> None, order |-> <<>>,
             seasonal_order |-> <<>> ]

TsVars == {"ts_end", "ts_end_seasonal_diff", "ts_exg", "ts_exg_seasonal_diff"}

InitLocals ==
    [ ts |-> [v \in TsVars |-> None], model |-> NoModel, fitted |-> FALSE,
      forecast_steps |-> 0, forecast_exog |-> <<>>,
      forecast_mean |-> <<>>, forecast_conf_int |-> <<>> ]

NoResp == [ status |-> 0, detail |-> None, rows |-> <<>> ]

\* HTTPException(status_code=400, detail="Method must be either ...")      line 91
MethodError == [ status |-> 400, detail |-> "Method must be either 'arima' or 'sarima'",
                 rows |-> <<>> ]

\* HTTPException(status_code=500, detail="Error in forecast generation: ...")  line 179
GenerationError == [ status |-> 500, detail |-> "Error in forecast generation",
                     rows |-> <<>> ]

\* an exception that leaves the handler uncaught (lines 93-96 are outside the
\* try block): the framework answers 500 Internal Server Error
UncaughtError == [ status |-> 500, detail |-> "Internal Server Error", rows |-> <<>> ]

\* HTMLResponse(content=html_content, status_code=200)                     line 176
HtmlResponse(rows) == [ status |-> 200, detail |-> None, rows |-> rows ]

\* only the pair the method uses is loaded
LoadPlan_lazy(r) ==
    IF IsArima(r.method)
    THEN << <<"ts_end_seasonal_diff", END_SEASONAL_DIFF>>,
            <<"ts_exg_seasonal_diff", EXG_SEASONAL_DIFF>> >>
    ELSE << <<"ts_end", END_DIFF>>, <<"ts_exg", EXG_DIFF>> >>

\* the loads of lines 93-96, in order: <<local variable, file>>; the same
\* four for every method
LoadPlan(r) ==
    << <<"ts_end", END_DIFF>>,
       <<"ts_end_seasonal_diff", END_SEASONAL_DIFF>>,
       <<"ts_exg", EXG_DIFF>>,
       <<"ts_exg_seasonal_diff", EXG_SEASONAL_DIFF>> >>

(***************************************************************************)
(* statsmodels: model construction, fit, get_forecast                      *)
(***************************************************************************)
\* the arima branch takes the endogenous array of the other pair
BuildModel_mixed(r, l) ==
    IF IsArima(r.method)
    THEN [ kind |-> "ARIMA", endog |-> l.ts["ts_end"],
           exog |-> l.ts["ts_exg_seasonal_diff"], order |-> r.order,
           seasonal_order |-> <<>> ]
    ELSE [ kind |-> "SARIMAX", endog |-> l.ts["ts_end"], exog |-> l.ts["ts_exg"],
           order |-> r.order, seasonal_order |-> r.seasonal_order ]

\* ARIMA(ts_end_seasonal_diff, ts_exg_seasonal_diff, order=...)            line 100
\* SARIMAX(ts_end, ts_exg, order=..., seasonal_order=...)                  lines 108-113
BuildModel(r, l) ==
    IF IsArima(r.method)
    THEN [ kind |-> "ARIMA", endog |-> l.ts["ts_end_seasonal_diff"],
           exog |-> l.ts["ts_exg_seasonal_diff"], order |-> r.order,
           seasonal_order |-> <<>> ]
    ELSE [ kind |-> "SARIMAX", endog |-> l.ts["ts_end"], exog |-> l.ts["ts_exg"],
           order |-> r.order, seasonal_order |-> r.seasonal_order ]

\* orders the library rejects whatever the data: a negative entry
InvalidOrder(m) ==
    \/ \E i \in DOMAIN m.order : m.order[i] < 0
    \/ \E i \in DOMAIN m.seasonal_order : m.seasonal_order[i] < 0

\* get_forecast(steps=steps, exog=usd_rates) rejects a horizon below one and
\* an exog that does not reshape to (steps, 1)
ForecastRejects(steps, usd_rates) == steps < 1 \/ Len(usd_rates) # steps

\* one forecast row as the library returns it: <<mean, lower, upper>>; the
\* second one has inverted bounds (pathological fit)
LibRows == { <<5, 3, 7>>, <<5, 7, 3>> }

LibForecasts(steps) == [1..steps -> LibRows]

(***************************************************************************)
(* pandas: dates and the result table                                      *)
(***************************************************************************)
\* pd.to_datetime('2024-01-01') as the day number within 2024
last_date == 1

\* timedelta(days=1)
timedelta_days == 1

\* pd.date_range(start, periods, freq='D')
date_range(start, periods) == [i \in 1..periods |-> start + (i - 1)]

\* pd.DataFrame({...}) raises when the columns differ in length
FrameRaises(dates, mean, ci) == Len(dates) # Len(mean) \/ Len(dates) # Len(ci)

\* column 0 / column 1 of conf_int
LowerOf(ci) == [i \in DOMAIN ci |-> ci[i][1]]
UpperOf(ci) == [i \in DOMAIN ci |-> ci[i][2]]

\* rows whose bounds do not bracket the mean are dropped
DataFrame_dropInverted(dates, mean, lower, upper) ==
    SelectSeq([i \in DOMAIN dates |->
                  [ date |-> dates[i], forecast |-> mean[i], lower_ci |-> lower[i],
                    upper_ci |-> upper[i] ]],
              LAMBDA row : row.lower_ci <= row.forecast /\ row.forecast <= row.upper_ci)

DataFrame(dates, mean, lower, upper) ==
    [i \in DOMAIN dates |->
        [ date |-> dates[i], forecast |-> mean[i], lower_ci |-> lower[i],
          upper_ci |-> upper[i] ]]

(***************************************************************************)
(* The handler, statement by statement                                     *)
(***************************************************************************)
Terminal(p) == pc[p] \in {"done", "error"}

Init ==
    /\ store \in Stores
    /\ req = [p \in Procs |-> NoReq]
    /\ pc = [p \in Procs |-> "idle"]
    /\ loc = [p \in Procs |-> InitLocals]
    /\ resp = [p \in Procs |-> NoResp]
    /\ loadlog = [p \in Procs |-> <<>>]
    /\ fitlog = [p \in Procs |-> <<>>]

\* the framework binds the query parameters and the body and calls the handler
Receive(p, R) ==
    /\ pc[p] = "idle"
    /\ \E r \in R : req' = [req EXCEPT ![p] = r]
    /\ pc' = [pc EXCEPT ![p] = "validating"]
    /\ UNCHANGED <<store, loc, resp, loadlog, fitlog>>

\* lines 90-91
Validate(p) ==
    /\ pc[p] = "validating"
    /\ IF ~Recognized(req[p].method)
       THEN /\ resp' = [resp EXCEPT ![p] = MethodError]
            /\ pc' = [pc EXCEPT ![p] = "error"]
       ELSE /\ pc' = [pc EXCEPT ![p] = "loading"]
            /\ UNCHANGED resp
    /\ UNCHANGED <<store, req, loc, loadlog, fitlog>>

\* the loaded arrays are kept in module-level variables shared by all requests
LoadSeries_global(p) ==
    /\ pc[p] = "loading"
    /\ LET plan == LoadPlan(req[p])
           k == Len(loadlog[p]) + 1
           var == plan[k][1]
           file == plan[k][2]
       IN  /\ loadlog' = [loadlog EXCEPT ![p] = Append(@, file)]
           /\ IF LoadRaises(store, file)
              THEN /\ resp' = [resp EXCEPT ![p] = UncaughtError]
                   /\ pc' = [pc EXCEPT ![p] = "error"]
                   /\ UNCHANGED loc
              ELSE /\ loc' = [q \in Procs |->
                                [loc[q] EXCEPT !.ts[var] = load_timeseries(store, file)]]
                   /\ pc' = [pc EXCEPT ![p] = IF k = Len(plan) THEN "fitting" ELSE "loading"]
                   /\ UNCHANGED resp
    /\ UNCHANGED <<store, req, fitlog>>

\* one of the four statements of lines 93-96
LoadSeries(p) ==
    /\ pc[p] = "loading"
    /\ LET plan == LoadPlan(req[p])
           k == Len(loadlog[p]) + 1
           var == plan[k][1]
           file == plan[k][2]
       IN  /\ loadlog' = [loadlog EXCEPT ![p] = Append(@, file)]
           /\ IF LoadRaises(store, file)
              THEN /\ resp' = [resp EXCEPT ![p] = UncaughtError]
                   /\ pc' = [pc EXCEPT ![p] = "error"]
                   /\ UNCHANGED loc
              ELSE /\ loc' = [loc EXCEPT ![p].ts[var] = load_timeseries(store, file)]
                   /\ pc' = [pc EXCEPT ![p] = IF k = Len(plan) THEN "fitting" ELSE "loading"]
                   /\ UNCHANGED resp
    /\ UNCHANGED <<store, req, fitlog>>

\* a fit that failed is run a second time
AfterFitFailure_retry(p) ==
    IF Len(fitlog[p]) < 1
    THEN /\ pc' = [pc EXCEPT ![p] = "fitting"]
         /\ UNCHANGED resp
    ELSE /\ resp' = [resp EXCEPT ![p] = GenerationError]
         /\ pc' = [pc EXCEPT ![p] = "error"]

\* line 178-179 for an exception of lines 100-101 / 108-114
AfterFitFailure(p) ==
    /\ resp' = [resp EXCEPT ![p] = GenerationError]
    /\ pc' = [pc EXCEPT ![p] = "error"]

\* lines 100-101 (arima) and 108-114 (sarima): construct the model and fit it
Fit(p) ==
    /\ pc[p] = "fitting"
    /\ LET model == BuildModel(req[p], loc[p])
       IN  /\ fitlog' = [fitlog EXCEPT ![p] = Append(@, model)]
           /\ \E converged \in BOOLEAN :
                IF converged /\ ~InvalidOrder(model)
                THEN /\ loc' = [loc EXCEPT ![p].model = model, ![p].fitted = TRUE]
                     /\ pc' = [pc EXCEPT ![p] = "forecasting"]
                     /\ UNCHANGED resp
                ELSE /\ AfterFitFailure(p)
                     /\ UNCHANGED loc
    /\ UNCHANGED <<store, req, loadlog>>

\* a forecast that failed sends the request back to the fit
AfterForecastFailure_refit(p) ==
    IF Len(fitlog[p]) < 2
    THEN /\ pc' = [pc EXCEPT ![p] = "fitting"]
         /\ UNCHANGED resp
    ELSE /\ resp' = [resp EXCEPT ![p] = GenerationError]
         /\ pc' = [pc EXCEPT ![p] = "error"]

\* line 178-179 for an exception of lines 103-105 / 116-118
AfterForecastFailure(p) ==
    /\ resp' = [resp EXCEPT ![p] = GenerationError]
    /\ pc' = [pc EXCEPT ![p] = "error"]

\* lines 103-105 and 116-118: get_forecast, predicted_mean, conf_int
Forecast(p) ==
    /\ pc[p] = "forecasting"
    /\ LET steps == req[p].steps
           usd_rates == req[p].usd_rates
       IN  \/ /\ ~ForecastRejects(steps, usd_rates)
              /\ \E f \in LibForecasts(steps) :
                    loc' = [loc EXCEPT ![p].forecast_steps = steps,
                                       ![p].forecast_exog = usd_rates,
                                       ![p].forecast_mean = [i \in 1..steps |-> f[i][1]],
                                       ![p].forecast_conf_int =
                                           [i \in 1..steps |-> <<f[i][2], f[i][3]>>]]
              /\ pc' = [pc EXCEPT ![p] = "assembling"]
              /\ UNCHANGED resp
           \/ /\ loc' = [loc EXCEPT ![p].forecast_steps = steps,
                                    ![p].forecast_exog = usd_rates]
              /\ AfterForecastFailure(p)
    /\ UNCHANGED <<store, req, loadlog, fitlog>>

\* the date axis starts on the anchor itself
ForecastDates_fromAnchor(steps) == date_range(last_date, steps)

\* lines 120-121
ForecastDates(steps) == date_range(last_date + timedelta_days, steps)

\* lines 120-176: dates, result table, page
Assemble(p) ==
    /\ pc[p] = "assembling"
    /\ LET forecast_dates == ForecastDates(req[p].steps)
           forecast_mean == loc[p].forecast_mean
           forecast_conf_int == loc[p].forecast_conf_int
       IN  IF FrameRaises(forecast_dates, forecast_mean, forecast_conf_int)
           THEN /\ resp' = [resp EXCEPT ![p] = GenerationError]
                /\ pc' = [pc EXCEPT ![p] = "error"]
           ELSE /\ resp' = [resp EXCEPT ![p] =
                       HtmlResponse(DataFrame(forecast_dates, forecast_mean,
                                              LowerOf(forecast_conf_int),
                                              UpperOf(forecast_conf_int)))]
                /\ pc' = [pc EXCEPT ![p] = "done"]
    /\ UNCHANGED <<store, req, loc, loadlog, fitlog>>

\* one request served alone
Next ==
    \E p \in {1} :
        \/ Receive(p, Requests)
        \/ Validate(p)
        \/ LoadSeries(p)
        \/ Fit(p)
        \/ Forecast(p)
        \/ Assemble(p)

Spec == Init /\ [][Next]_vars

\* a request the framework has started runs to its end
FairSpec == Spec /\ WF_vars(Next)

\* NumProcs requests served by parallel worker threads
ConcInit ==
    /\ Init
    /\ Cardinality({f \in Files : store[f] = NoFile}) <= 1

ConcNext ==
    \E p \in Procs :
        \/ Receive(p, ConcRequests)
        \/ Validate(p)
        \/ LoadSeries(p)
        \/ Fit(p)
        \/ Forecast(p)
        \/ Assemble(p)

ConcSpec == ConcInit /\ [][ConcNext]_vars

(***************************************************************************)
(* Derived notions used by the properties                                  *)
(***************************************************************************)
Started(p) == pc[p] # "idle"

\* the phase a position of the handler belongs to
Phase(l) ==
    CASE l = "idle" -> "idle"
      [] l = "validating" -> "validating"
      [] l = "loading" -> "series-loading"
      [] l = "fitting" -> "fitting"
      [] l \in {"forecasting", "assembling"} -> "forecasting"
      [] l = "done" -> "done"
      [] l = "error" -> "error"

PhaseOrder == <<"idle", "validating", "series-loading", "fitting", "forecasting", "done">>

Rank(ph) == CHOOSE i \in DOMAIN PhaseOrder : PhaseOrder[i] = ph

AllFiles == <<END_DIFF, END_SEASONAL_DIFF, EXG_DIFF, EXG_SEASONAL_DIFF>>

StoreComplete == \A f \in Files : store[f] # NoFile

KnownMethod(method) == Lower(method) = ARIMA_NAME \/ Lower(method) = SARIMA_NAME

ClientError(status) == status >= 400 /\ status <= 499

\* the model a request fits when it is served alone on store st
AloneModel(r, st) ==
    IF Lower(r.method) = ARIMA_NAME
    THEN [ kind |-> "ARIMA", endog |-> st[END_SEASONAL_DIFF],
           exog |-> st[EXG_SEASONAL_DIFF], order |-> r.order, seasonal_order |-> <<>> ]
    ELSE [ kind |-> "SARIMAX", endog |-> st[END_DIFF], exog |-> st[EXG_DIFF],
           order |-> r.order, seasonal_order |-> r.seasonal_order ]

\* the statuses a request can end in when it is served alone on store st
AloneStatuses(r, st) ==
    IF ~KnownMethod(r.method) THEN {400}
    ELSE IF \E f \in Files : st[f] = NoFile THEN {500}
    ELSE IF InvalidOrder(AloneModel(r, st)) \/ ForecastRejects(r.steps, r.usd_rates) THEN {500}
    ELSE {200, 500}

(***************************************************************************)
(* C1: a request whose method, lower-cased, is neither arima nor sarima    *)
(* ends in status 400, and neither a series load nor a fit happens for it. *)
(***************************************************************************)
C1_UnknownMethodIs400 ==
    \A p \in Procs :
        (Started(p) /\ ~KnownMethod(req[p].method)) =>
            /\ loadlog[p] = <<>>
            /\ fitlog[p] = <<>>
            /\ loc[p] = InitLocals
            /\ pc[p] \in {"validating", "error"}
            /\ (pc[p] = "error" => resp[p].status = 400 /\ resp[p].rows = <<>>)

C1_Witness ==
    \E p \in Procs :
        /\ pc[p] = "error"
        /\ req[p].method = <<"a", "r", "m", "a">>
        /\ req[p].steps = 2
        /\ Len(req[p].usd_rates) = 2
        /\ resp[p].status = 400

(***************************************************************************)
(* C2 (as claimed): a recognized method with len(usd_rates) # steps ends   *)
(* in a client error (4xx).  Stated for requests that fail on nothing      *)
(* else: all four files exist, steps >= 1, the fit succeeded.              *)
(***************************************************************************)
C2_LengthMismatchIsClientError ==
    \A p \in Procs :
        (Terminal(p) /\ KnownMethod(req[p].method) /\ StoreComplete
           /\ req[p].steps >= 1
           /\ loc[p].fitted
           /\ Len(req[p].usd_rates) # req[p].steps) =>
            ClientError(resp[p].status)

(***************************************************************************)
(* C3 (as claimed): a recognized method with steps < 1 is rejected as a    *)
(* client error and the fit is never reached.  Stated for requests whose   *)
(* four files exist and whose orders are not negative, so that nothing but *)
(* the horizon is wrong.                                                   *)
(***************************************************************************)
C3_NonPositiveStepsRejectedBeforeFit ==
    \A p \in Procs :
        (Started(p) /\ KnownMethod(req[p].method) /\ StoreComplete
           /\ \A i \in DOMAIN req[p].order : req[p].order[i] >= 0
           /\ req[p].steps < 1) =>
            /\ fitlog[p] = <<>>
            /\ (Terminal(p) => ClientError(resp[p].status))

C5_CompleteOrAbsent ==
    \A p \in Procs :
        /\ ~Terminal(p) => resp[p] = NoResp
        /\ pc[p] = "error" => resp[p].status \in {400, 500} /\ resp[p].rows = <<>>
        /\ pc[p] = "done" =>
              /\ resp[p].status = 200
              /\ req[p].steps >= 1
              /\ Len(resp[p].rows) = req[p].steps
              /\ \A i \in 1..req[p].steps :
                    /\ resp[p].rows[i].forecast = loc[p].forecast_mean[i]
                    /\ resp[p].rows[i].lower_ci = loc[p].forecast_conf_int[i][1]
                    /\ resp[p].rows[i].upper_ci = loc[p].forecast_conf_int[i][2]

C5_Witness ==
    \E p \in Procs :
        /\ pc[p] = "done"
        /\ req[p].steps = 2
        /\ Len(resp[p].rows) = 2
        /\ resp[p].rows[1].lower_ci > resp[p].rows[1].upper_ci
        /\ resp[p].rows[2].lower_ci <= resp[p].rows[2].forecast

(***************************************************************************)
(* C6: in a 200 result row i (counted from 0) is dated anchor + i + 1 days *)
(* with the anchor 2024-01-01, whatever the method, orders, exogenous      *)
(* values and series are: the first row is the day after the anchor and    *)
(* consecutive rows are one day apart.                                     *)
(***************************************************************************)
C6_DateAlignment ==
    \A p \in Procs :
        pc[p] = "done" =>
            /\ Len(resp[p].rows) = req[p].steps
            /\ \A i \in 0..(req[p].steps - 1) :
                  resp[p].rows[i + 1].date = last_date + i + 1
            /\ \A i \in 1..(req[p].steps - 1) :
                  resp[p].rows[i + 1].date = resp[p].rows[i].date + 1

C6_Witness ==
    \E p \in Procs :
        /\ pc[p] = "done"
        /\ req[p].steps = 2
        /\ resp[p].rows[1].date = 2
        /\ resp[p].rows[2].date = 3

(***************************************************************************)
(* C7: when construction, fit, forecast extraction or assembly fails for a *)
(* recognized method, the request ends in the one generic 500 response,    *)
(* with a message and without rows, and at most one fit was attempted.     *)
(***************************************************************************)
C7_PipelineFailureIsGeneric500 ==
    \A p \in Procs :
        /\ Len(fitlog[p]) <= 1
        /\ (pc[p] = "error" /\ fitlog[p] # <<>>) =>
              /\ KnownMethod(req[p].method)
              /\ resp[p] = GenerationError
              /\ resp[p].status = 500
              /\ resp[p].detail # None
              /\ resp[p].rows = <<>>

\* a fit that failed
C7_Witness ==
    \E p \in Procs :
        /\ pc[p] = "error"
        /\ Len(fitlog[p]) = 1
        /\ ~loc[p].fitted
        /\ resp[p].status = 500

(***************************************************************************)
(* C8: with several requests interleaved, every step changes the variables *)
(* of at most one request, the Series Store is never written, and          *)
(* each request fits the model, forecasts with the horizon and exogenous   *)
(* values and ends in a status it could have when served alone.            *)
(***************************************************************************)
C8_OwnVariablesOnly ==
    /\ store' = store
    /\ \E p \in Procs :
          \A q \in Procs \ {p} :
              /\ pc'[q] = pc[q]
              /\ req'[q] = req[q]
              /\ loc'[q] = loc[q]
              /\ resp'[q] = resp[q]
              /\ loadlog'[q] = loadlog[q]
              /\ fitlog'[q] = fitlog[q]

C8_SameAsAlone ==
    \A p \in Procs :
        /\ \A k \in DOMAIN fitlog[p] : fitlog[p][k] = AloneModel(req[p], store)
        /\ pc[p] \in {"assembling", "done"} =>
              /\ loc[p].forecast_steps = req[p].steps
              /\ loc[p].forecast_exog = req[p].usd_rates
              /\ loc[p].model = AloneModel(req[p], store)
        /\ Terminal(p) => resp[p].status \in AloneStatuses(req[p], store)

C8_RequestIndependence == [][C8_OwnVariablesOnly]_vars /\ []C8_SameAsAlone

\* two requests of different methods both in flight, one fitted, one loading
C8_Witness ==
    \E p, q \in Procs :
        /\ p # q
        /\ Lower(req[p].method) = ARIMA_NAME /\ pc[p] = "forecasting"
        /\ req[q].method = SARIMA_NAME /\ pc[q] = "loading" /\ Len(loadlog[q]) = 2

(***************************************************************************)
(* C9: a request moves through idle, validating, series-loading, fitting,  *)
(* forecasting, done in this order: a step keeps the phase, enters the     *)
(* next one, or ends in the terminal error; done and error are never left; *)
(* and every started request reaches done or error.                        *)
(***************************************************************************)
C9_PhaseStep ==
    \A p \in Procs :
        LET a == Phase(pc[p])
            b == Phase(pc'[p])
        IN  \/ b = a
            \/ a \notin {"done", "error"} /\ b = "error"
            \/ a \notin {"done", "error"} /\ b # "error" /\ Rank(b) = Rank(a) + 1

C9_PhaseOrderAndTermination ==
    /\ [][C9_PhaseStep]_vars
    /\ \A p \in {1} : (pc[p] = "validating") ~> Terminal(p)

C9_Witness ==
    \E p \in Procs : pc[p] = "done" /\ Len(loadlog[p]) = 4 /\ Len(fitlog[p]) = 1

(***************************************************************************)
(* C10: a request with a recognized method loads all four series before a  *)
(* model is constructed, whatever the method; if one of the four loads     *)
(* fails, also one of the pair the method does not use, the request ends   *)
(* in a 500 without a fit and without rows.                                *)
(***************************************************************************)
C10_AllFourLoadedFirst ==
    \A p \in Procs :
        /\ fitlog[p] # <<>> =>
              /\ loadlog[p] = AllFiles
              /\ \A v \in TsVars : loc[p].ts[v] # None
        /\ (Terminal(p) /\ KnownMethod(req[p].method) /\ ~StoreComplete) =>
              /\ pc[p] = "error"
              /\ resp[p].status = 500
              /\ resp[p].rows = <<>>
              /\ fitlog[p] = <<>>

\* an arima request fails on the missing end_diff.npy, which arima does not use
C10_Witness ==
    \E p \in Procs :
        /\ Lower(req[p].method) = ARIMA_NAME
        /\ store[END_DIFF] = NoFile
        /\ store[END_SEASONAL_DIFF] # NoFile /\ store[EXG_SEASONAL_DIFF] # NoFile
        /\ pc[p] = "error"
        /\ resp[p].status = 500

====
